---- MODULE Spec2Model ----
(***************************************************************************)
(* Model of lolalytico's LolalyticsClient (src/lolalytico/main.py): the    *)
(* rank / lane lexicon tables, the input normaliser, the query builder,    *)
(* the session scope (__aenter__ / __aexit__), the page fetcher and the    *)
(* positional field extractors.                                            *)
(*                                                                         *)
(* Strings are TLA+ strings and are taken apart character by character     *)
(* with Len / SubSeq, so str.lower, str.lstrip, str.rstrip, urljoin and    *)
(* urlencode are computed, not assumed.                                    *)
(***************************************************************************)
EXTENDS Integers, Sequences, FiniteSets, TLC

VARIABLES
    lx_op,      \* SpecLex: the helper that was applied ("none" before)
    lx_in,      \* SpecLex: its inputs [base, path, lane, rank]
    lx_out,     \* SpecLex: its result [ok, err, val]
    ex_op,      \* SpecExt: the extractor that was applied ("none" before)
    ex_in,      \* SpecExt: its inputs [tree, n, category]
    ex_out,     \* SpecExt: its result [ok, err, val]
    owns,           \* client -> LolalyticsClient._owns_session
    client_session, \* client -> LolalyticsClient._session ("none" for None)
    session_state,  \* session -> "absent" (not created), "open" or "closed"
    scopes,         \* task -> stack of the clients whose `async with` it is inside
    plan,           \* task -> the operation and arguments it calls with
    call            \* task -> its current / last call of a public operation

lexvars == <<lx_op, lx_in, lx_out>>

extvars == <<ex_op, ex_in, ex_out>>

clientvars == <<owns, client_session, session_state, scopes, plan, call>>

vars ==
    <<lx_op, lx_in, lx_out, ex_op, ex_in, ex_out,
      owns, client_session, session_state, scopes, plan, call>>

(***************************************************************************)
(* String helpers (Python str methods)                                     *)
(***************************************************************************)
Char(s, i) == SubSeq(s, i, i)

UpperLetters == "ABCDEFGHIJKLMNOPQRSTUVWXYZ"

LowerLetters == "abcdefghijklmnopqrstuvwxyz"

\* position of the one-character string c in s, 0 when absent (str.find + 1)
RECURSIVE FindFrom(_, _, _)
FindFrom(s, c, i) ==
    IF i > Len(s) THEN 0
    ELSE IF Char(s, i) = c THEN i
    ELSE FindFrom(s, c, i + 1)

Find(s, c) == FindFrom(s, c, 1)

Contains(s, c) == Find(s, c) # 0

LowerChar(c) ==
    LET p == Find(UpperLetters, c)
    IN  IF p = 0 THEN c ELSE Char(LowerLetters, p)

UpperChar(c) ==
    LET p == Find(LowerLetters, c)
    IN  IF p = 0 THEN c ELSE Char(UpperLetters, p)

\* str.lower()
RECURSIVE Lower(_)
Lower(s) ==
    IF s = "" THEN ""
    ELSE LowerChar(Char(s, 1)) \o Lower(SubSeq(s, 2, Len(s)))

\* str.upper()
RECURSIVE Upper(_)
Upper(s) ==
    IF s = "" THEN ""
    ELSE UpperChar(Char(s, 1)) \o Upper(SubSeq(s, 2, Len(s)))

\* str.capitalize() on an all-lower-case string
Capitalize(s) ==
    IF s = "" THEN "" ELSE UpperChar(Char(s, 1)) \o SubSeq(s, 2, Len(s))

(***************************************************************************)
(* Lexicon tables                                                          *)
(***************************************************************************)
display_ranks ==
    ("" :> "") @@
    ("challenger" :> "challenger") @@
    ("chall" :> "challenger") @@
    ("c" :> "challenger") @@
    ("grandmaster_plus" :> "grandmaster_plus") @@
    ("grandmaster+" :> "grandmaster_plus") @@
    ("gm+" :> "grandmaster_plus") @@
    ("grandmaster" :> "grandmaster") @@
    ("grandm" :> "grandmaster") @@
    ("gm" :> "grandmaster") @@
    ("master_plus" :> "master_plus") @@
    ("master+" :> "master_plus") @@
    ("mast+" :> "master_plus") @@
    ("m+" :> "master_plus") @@
    ("master" :> "master") @@
    ("mast" :> "master") @@
    ("m" :> "master") @@
    ("diamond_plus" :> "diamond_plus") @@
    ("diamond+" :> "diamond_plus") @@
    ("diam+" :> "diamond_plus") @@
    ("dia+" :> "diamond_plus") @@
    ("d+" :> "diamond_plus") @@
    ("diamond" :> "diamond") @@
    ("diam" :> "diamond") @@
    ("dia" :> "diamond") @@
    ("d" :> "diamond") @@
    ("emerald" :> "emerald") @@
    ("eme" :> "emerald") @@
    ("em" :> "emerald") @@
    ("e" :> "emerald") @@
    ("platinum+" :> "platinum_plus") @@
    ("plat+" :> "platinum_plus") @@
    ("pl+" :> "platinum_plus") @@
    ("p+" :> "platinum_plus") @@
    ("platinum" :> "platinum") @@
    ("plat" :> "platinum") @@
    ("pl" :> "platinum") @@
    ("p" :> "platinum") @@
    ("gold_plus" :> "gold_plus") @@
    ("gold+" :> "gold_plus") @@
    ("g+" :> "gold_plus") @@
    ("gold" :> "gold") @@
    ("g" :> "gold") @@
    ("silver" :> "silver") @@
    ("silv" :> "silver") @@
    ("s" :> "silver") @@
    ("bronze" :> "bronze") @@
    ("br" :> "bronze") @@
    ("b" :> "bronze") @@
    ("iron" :> "iron") @@
    ("i" :> "iron") @@
    ("unranked" :> "unranked") @@
    ("unrank" :> "unranked") @@
    ("unr" :> "unranked") @@
    ("un" :> "unranked") @@
    ("none" :> "unranked") @@
    ("null" :> "unranked") @@
    ("-" :> "unranked") @@
    ("all" :> "all") @@
    ("otp" :> "1trick") @@
    ("1trick" :> "1trick") @@
    ("1-trick" :> "1trick") @@
    ("1trickpony" :> "1trick") @@
    ("onetrickpony" :> "1trick") @@
    ("onetrick" :> "1trick")

display_lanes ==
    ("" :> "") @@
    ("top" :> "top") @@
    ("jg" :> "jungle") @@
    ("jng" :> "jungle") @@
    ("jungle" :> "jungle") @@
    ("mid" :> "middle") @@
    ("middle" :> "middle") @@
    ("bottom" :> "bottom") @@
    ("bot" :> "bottom") @@
    ("adc" :> "bottom") @@
    ("support" :> "support") @@
    ("supp" :> "support") @@
    ("sup" :> "support")

Range(f) == {f[k] : k \in DOMAIN f}

(***************************************************************************)
(* Input normaliser                                                        *)
(***************************************************************************)
\* a returned value / a raised exception carrying its argument
Ok(v) == [ok |-> TRUE, err |-> "", val |-> v]

Raise(e, v) == [ok |-> FALSE, err |-> e, val |-> v]

\* try: return mapping[key] / except KeyError: raise err(raw)
_lookup(table, key, err, raw) ==
    IF key \in DOMAIN table THEN Ok(table[key]) ELSE Raise(err, raw)

\* variant: returns the lower-cased key instead of the table's value
_map_rank_ReturnsKey(rank) ==
    IF Lower(rank) \in DOMAIN display_ranks THEN Ok(Lower(rank))
    ELSE Raise("InvalidRank", rank)

\* variant: looks the raw string up without lower-casing it
_map_rank_NoLower(rank) == _lookup(display_ranks, rank, "InvalidRank", rank)

_map_rank(rank) == _lookup(display_ranks, Lower(rank), "InvalidRank", rank)

_map_lane(lane) == _lookup(display_lanes, Lower(lane), "InvalidLane", lane)

(***************************************************************************)
(* Query builder: str.rstrip / str.lstrip, urllib.parse.urljoin and        *)
(* urllib.parse.urlencode.  urljoin is modelled for an absolute base       *)
(* "scheme://netloc[/path][?query]" and a relative reference made of a     *)
(* path and an optional "?query" (no scheme, netloc, params or fragment),  *)
(* which is every reference the client builds.                             *)
(***************************************************************************)
RECURSIVE RStrip(_, _)
RStrip(s, c) ==
    IF s # "" /\ Char(s, Len(s)) = c THEN RStrip(SubSeq(s, 1, Len(s) - 1), c) ELSE s

RECURSIVE LStrip(_, _)
LStrip(s, c) ==
    IF s # "" /\ Char(s, 1) = c THEN LStrip(SubSeq(s, 2, Len(s)), c) ELSE s

\* str.split(c): the pieces of s between the occurrences of c
RECURSIVE Split(_, _)
Split(s, c) ==
    LET p == Find(s, c)
    IN  IF p = 0 THEN <<s>>
        ELSE <<SubSeq(s, 1, p - 1)>> \o Split(SubSeq(s, p + 1, Len(s)), c)

\* sep.join(parts)
RECURSIVE Join(_, _)
Join(parts, sep) ==
    IF parts = <<>> THEN ""
    ELSE IF Len(parts) = 1 THEN parts[1]
    ELSE parts[1] \o sep \o Join(Tail(parts), sep)

\* first position of c in s, or Len(s) + 1
Upto(s, c) == IF Find(s, c) = 0 THEN Len(s) + 1 ELSE Find(s, c)

Min2(a, b) == IF a < b THEN a ELSE b

\* urlsplit of an absolute URL "scheme://netloc[/path][?query]": the netloc
\* ends at the first "/" or "?", the query starts after the first "?"
NetlocEnd(rest) == Min2(Upto(rest, "/"), Upto(rest, "?"))

urlsplit_tail(scheme, netloc, tail) ==
    [scheme |-> scheme, netloc |-> netloc,
     path |-> SubSeq(tail, 1, Upto(tail, "?") - 1),
     query |-> SubSeq(tail, Upto(tail, "?") + 1, Len(tail))]

urlsplit_rest(scheme, rest) ==
    urlsplit_tail(scheme, SubSeq(rest, 1, NetlocEnd(rest) - 1),
                  SubSeq(rest, NetlocEnd(rest), Len(rest)))

urlsplit(url) ==
    urlsplit_rest(SubSeq(url, 1, Find(url, ":") - 1),
                  SubSeq(url, Find(url, ":") + 3, Len(url)))

urlunsplit(scheme, netloc, path, query) ==
    scheme \o "://" \o netloc
    \o (IF path # "" /\ Char(path, 1) # "/" THEN "/" \o path ELSE path)
    \o (IF query # "" THEN "?" \o query ELSE "")

\* segments[1:-1] = filter(None, segments[1:-1])
DropEmptyMiddle(segs) ==
    IF Len(segs) <= 2 THEN segs
    ELSE <<segs[1]>> \o SelectSeq(SubSeq(segs, 2, Len(segs) - 1), LAMBDA x : x # "")
         \o <<segs[Len(segs)]>>

\* the dot-segment loop of urljoin
RECURSIVE Resolve(_, _)
Resolve(segs, acc) ==
    IF segs = <<>> THEN acc
    ELSE IF Head(segs) = ".."
         THEN Resolve(Tail(segs), IF acc = <<>> THEN acc ELSE SubSeq(acc, 1, Len(acc) - 1))
    ELSE IF Head(segs) = "." THEN Resolve(Tail(segs), acc)
    ELSE Resolve(Tail(segs), Append(acc, Head(segs)))

\* base_parts = bpath.split('/'), without its last piece unless that is empty
base_parts(bp) == IF bp[Len(bp)] # "" THEN SubSeq(bp, 1, Len(bp) - 1) ELSE bp

\* the segments of the reference path laid over the base path
Segments(bpath, path) ==
    IF Char(path, 1) = "/" THEN Split(path, "/")
    ELSE DropEmptyMiddle(base_parts(Split(bpath, "/")) \o Split(path, "/"))

PathOrSlash(joined) == IF joined = "" THEN "/" ELSE joined

\* '/'.join(resolved_path) or '/'
resolved_path(segments) ==
    PathOrSlash(Join(IF segments[Len(segments)] \in {".", ".."}
                     THEN Append(Resolve(segments, <<>>), "")
                     ELSE Resolve(segments, <<>>), "/"))

\* urljoin once base is split (b) and the reference is cut at its first "?"
urljoin_parts(b, path, query) ==
    IF path = ""
    THEN urlunsplit(b.scheme, b.netloc, b.path, IF query = "" THEN b.query ELSE query)
    ELSE urlunsplit(b.scheme, b.netloc, resolved_path(Segments(b.path, path)), query)

urljoin(base, url) ==
    IF url = "" THEN base
    ELSE urljoin_parts(urlsplit(base), SubSeq(url, 1, Upto(url, "?") - 1),
                       SubSeq(url, Upto(url, "?") + 1, Len(url)))

\* urllib.parse.quote_plus on the characters a table key or value can hold
SafeChars == LowerLetters \o UpperLetters \o "0123456789" \o "_.-~"

QuoteChar(c) ==
    IF Contains(SafeChars, c) THEN c
    ELSE IF c = " " THEN "+"
    ELSE IF c = "+" THEN "%2B"
    ELSE IF c = "/" THEN "%2F"
    ELSE IF c = "?" THEN "%3F"
    ELSE IF c = "&" THEN "%26"
    ELSE "%3D"

RECURSIVE quote_plus(_)
quote_plus(s) ==
    IF s = "" THEN "" ELSE QuoteChar(Char(s, 1)) \o quote_plus(SubSeq(s, 2, Len(s)))

\* urlencode of an insertion-ordered dict, given as a sequence of <<key, value>>
RECURSIVE urlencode(_)
urlencode(params) ==
    IF params = <<>> THEN ""
    ELSE quote_plus(params[1][1]) \o "=" \o quote_plus(params[1][2])
         \o (IF Len(params) > 1 THEN "&" \o urlencode(Tail(params)) ELSE "")

\* LolalyticsClient.__init__: self.base_url
ClientBaseUrl(base) == RStrip(base, "/") \o "/"

\* variant: always introduces the parameters with "?"
_with_params_AlwaysQuestionMark(url, params) ==
    IF params # <<>> THEN Ok(url \o "?" \o urlencode(params)) ELSE Ok(url)

\* if params: url = f"{url}{sep}{urlencode(params)}"
_with_params(url, params) ==
    IF params # <<>>
    THEN Ok(url \o (IF Contains(url, "?") THEN "&" ELSE "?") \o urlencode(params))
    ELSE Ok(url)

\* variant: adds the parameters whether or not lane / rank are empty
_build_url_params_AlwaysAdds(l, r, url, lane, rank) ==
    IF ~l.ok THEN l
    ELSE IF ~r.ok THEN r
    ELSE _with_params(url, <<(<<"lane", l.val>>), (<<"tier", r.val>>)>>)

\* _build_url once lane is mapped (l), rank is mapped (r) and the URL is
\* joined: the first failed mapping is raised, else params is filled in order
_build_url_params(l, r, url, lane, rank) ==
    IF ~l.ok THEN l
    ELSE IF ~r.ok THEN r
    ELSE _with_params(url,
             (IF lane # "" THEN <<(<<"lane", l.val>>)>> ELSE <<>>)
             \o (IF rank # "" THEN <<(<<"tier", r.val>>)>> ELSE <<>>))

_build_url(base, path, lane, rank) ==
    _build_url_params(IF lane # "" THEN _map_lane(lane) ELSE Ok(""),
                      IF rank # "" THEN _map_rank(rank) ELSE Ok(""),
                      urljoin(base, LStrip(path, "/")), lane, rank)

(***************************************************************************)
(* SpecLex: the helpers applied to inputs drawn from bounded sets          *)
(***************************************************************************)
RankKeys == DOMAIN display_ranks

LaneKeys == DOMAIN display_lanes

\* raw rank strings: every key, every canonical token, their upper-case and
\* capitalised spellings, and strings outside the table
RawRanks ==
    LET known == RankKeys \cup Range(display_ranks)
    IN  known \cup {Upper(k) : k \in known} \cup {Capitalize(k) : k \in known}
        \cup {"nonsense_rank", "Nonsense_Rank", "test", "gm++", " gm", "g m"}

RawLanes ==
    LET known == LaneKeys \cup Range(display_lanes)
    IN  known \cup {Upper(k) : k \in known} \cup {Capitalize(k) : k \in known}
        \cup {"nonsense_lane", "Nonsense_Lane", "test", "jgl", "to p"}

\* a smaller choice of ranks and lanes for the URL builder
UrlRanks == {"", "gm+", "GM+", "platinum_plus", "P+", "1-trick", "test", "gold"}

UrlLanes == {"", "top", "JG", "adc", "Middle", "test"}

Bases ==
    {"https://x.test/", "https://x.test", "https://x.test//", "https://lolalytics.com/",
     "https://x.test/api", "https://x.test/?a=1", "https://x.test/api?k=v",
     "https://x.test?a=1"}

Paths ==
    {"lol/tierlist/", "/lol/tierlist/", "", "lol/jax/counters/", "lol/a?b/build/",
     "lol/../x/", "lol//x/", "?", "lol/jax/vs/./build/", "..", "lol/x/."}

NoResult == [ok |-> FALSE, err |-> "none", val |-> ""]

\* the client's variables in the specifications that do not use them
ClientOff ==
    /\ owns = <<>> /\ client_session = <<>> /\ session_state = <<>>
    /\ scopes = <<>> /\ plan = <<>> /\ call = <<>>

LexInit ==
    /\ ClientOff
    /\ ex_op = "off" /\ ex_in = <<>> /\ ex_out = <<>>
    /\ lx_op = "none"
    /\ lx_in \in [base : Bases, path : Paths, lane : RawLanes, rank : RawRanks]
    /\ (lx_in.lane \in UrlLanes /\ lx_in.rank \in UrlRanks)
         \/ (lx_in.base = "https://x.test/" /\ lx_in.path = "lol/tierlist/")
    /\ lx_out = NoResult

MapRank ==
    /\ lx_op = "none"
    /\ lx_op' = "map_rank"
    /\ lx_out' = _map_rank(lx_in.rank)
    /\ UNCHANGED <<lx_in, extvars, clientvars>>

MapLane ==
    /\ lx_op = "none"
    /\ lx_op' = "map_lane"
    /\ lx_out' = _map_lane(lx_in.lane)
    /\ UNCHANGED <<lx_in, extvars, clientvars>>

BuildUrl ==
    /\ lx_op = "none"
    /\ lx_op' = "build_url"
    /\ lx_out' = _build_url(ClientBaseUrl(lx_in.base), lx_in.path, lx_in.lane, lx_in.rank)
    /\ UNCHANGED <<lx_in, extvars, clientvars>>

LexNext == MapRank \/ MapLane \/ BuildUrl

SpecLex == LexInit /\ [][LexNext]_vars

(***************************************************************************)
(* Document tree.  A tree is a function from the XPath expressions that    *)
(* match at least one node to the text_content() of the first match;       *)
(* tree.xpath(x)[0] raises IndexError when x is not in its domain.         *)
(***************************************************************************)
IndexError == Raise("IndexError", "list index out of range")

Present(tree, xp) == xp \in DOMAIN tree

Whitespace == " \n\t"

\* str.strip()
RECURSIVE StripLeft(_)
StripLeft(s) ==
    IF s # "" /\ Contains(Whitespace, Char(s, 1)) THEN StripLeft(SubSeq(s, 2, Len(s))) ELSE s

RECURSIVE StripRight(_)
StripRight(s) ==
    IF s # "" /\ Contains(Whitespace, Char(s, Len(s)))
    THEN StripRight(SubSeq(s, 1, Len(s) - 1)) ELSE s

Strip(s) == StripLeft(StripRight(s))

\* node.text_content().strip()
Text(tree, xp) == Strip(tree[xp])

(***************************************************************************)
(* get_tierlist                                                            *)
(***************************************************************************)
tl_rank_xpath(i) == "/html/body/main/div[6]/div[" \o ToString(i) \o "]/div[1]"

tl_champion_xpath(i) == "/html/body/main/div[6]/div[" \o ToString(i) \o "]/div[3]/a"

tl_tier_xpath(i) == "/html/body/main/div[6]/div[" \o ToString(i) \o "]/div[4]"

tl_winrate_xpath(i) == "/html/body/main/div[6]/div[" \o ToString(i) \o "]/div[6]/div/span[1]"

tl_pbi_xpath(i) == "/html/body/main/div[6]/div[" \o ToString(i) \o "]/div[8]/div"

\* variant: pbi is read like the other fields, without the try / except
tl_row_PbiHard(tree, i) ==
    IF ~Present(tree, tl_rank_xpath(i)) THEN IndexError
    ELSE IF ~Present(tree, tl_champion_xpath(i)) THEN IndexError
    ELSE IF ~Present(tree, tl_tier_xpath(i)) THEN IndexError
    ELSE IF ~Present(tree, tl_winrate_xpath(i)) THEN IndexError
    ELSE IF ~Present(tree, tl_pbi_xpath(i)) THEN IndexError
    ELSE Ok([rank |-> Text(tree, tl_rank_xpath(i)),
             champion |-> Text(tree, tl_champion_xpath(i)),
             tier |-> Text(tree, tl_tier_xpath(i)),
             winrate |-> Text(tree, tl_winrate_xpath(i)),
             pbi |-> Text(tree, tl_pbi_xpath(i))])

\* variant: a missing winrate is replaced by "" like pbi
tl_row_SoftWinrate(tree, i) ==
    IF ~Present(tree, tl_rank_xpath(i)) THEN IndexError
    ELSE IF ~Present(tree, tl_champion_xpath(i)) THEN IndexError
    ELSE IF ~Present(tree, tl_tier_xpath(i)) THEN IndexError
    ELSE Ok([rank |-> Text(tree, tl_rank_xpath(i)),
             champion |-> Text(tree, tl_champion_xpath(i)),
             tier |-> Text(tree, tl_tier_xpath(i)),
             winrate |-> IF Present(tree, tl_winrate_xpath(i))
                         THEN Text(tree, tl_winrate_xpath(i)) ELSE "",
             pbi |-> IF Present(tree, tl_pbi_xpath(i))
                     THEN Text(tree, tl_pbi_xpath(i)) ELSE ""])

\* one iteration of the loop of get_tierlist: the entry of row i, or IndexError
tl_row(tree, i) ==
    IF ~Present(tree, tl_rank_xpath(i)) THEN IndexError
    ELSE IF ~Present(tree, tl_champion_xpath(i)) THEN IndexError
    ELSE IF ~Present(tree, tl_tier_xpath(i)) THEN IndexError
    ELSE IF ~Present(tree, tl_winrate_xpath(i)) THEN IndexError
    ELSE Ok([rank |-> Text(tree, tl_rank_xpath(i)),
             champion |-> Text(tree, tl_champion_xpath(i)),
             tier |-> Text(tree, tl_tier_xpath(i)),
             winrate |-> Text(tree, tl_winrate_xpath(i)),
             pbi |-> IF Present(tree, tl_pbi_xpath(i))
                     THEN Text(tree, tl_pbi_xpath(i)) ELSE ""])

\* for i in range(3, n + 3)
RECURSIVE tl_loop(_, _, _, _)
tl_loop(tree, i, stop, results) ==
    IF i >= stop THEN Ok(results)
    ELSE LET row == tl_row(tree, i)
         IN  IF ~row.ok THEN row
             ELSE tl_loop(tree, i + 1, stop, Append(results, row.val))

get_tierlist_extract(tree, n) == tl_loop(tree, 3, n + 3, <<>>)

(***************************************************************************)
(* get_counters                                                            *)
(***************************************************************************)
ct_champion_xpath(i) ==
    "/html/body/main/div[6]/div[1]/div[2]/span[" \o ToString(i) \o "]/div[1]/a/div/div[1]"

ct_winrate_xpath(i) ==
    "/html/body/main/div[6]/div[1]/div[2]/span[" \o ToString(i) \o "]/div[1]/a/div/div[2]/div"

ct_row(tree, i) ==
    IF ~Present(tree, ct_champion_xpath(i)) THEN IndexError
    ELSE IF ~Present(tree, ct_winrate_xpath(i)) THEN IndexError
    ELSE Ok([champion |-> Text(tree, ct_champion_xpath(i)),
             winrate |-> Split(Text(tree, ct_winrate_xpath(i)), "%")[1]])

\* for i in range(1, n + 1)
RECURSIVE ct_loop(_, _, _, _)
ct_loop(tree, i, stop, results) ==
    IF i >= stop THEN Ok(results)
    ELSE LET row == ct_row(tree, i)
         IN  IF ~row.ok THEN row
             ELSE ct_loop(tree, i + 1, stop, Append(results, row.val))

get_counters_extract(tree, n) == ct_loop(tree, 1, n + 1, <<>>)

(***************************************************************************)
(* get_champion_data                                                       *)
(***************************************************************************)
labels ==
    <<"winrate", "wr_delta", "game_avg_wr", "pickrate", "tier", "rank", "banrate", "games">>

current_xpath(i) ==
    "/html/body/main/div[5]/div[1]/div[2]/div[2]/div[" \o ToString((i \div 5) + 1)
    \o "]/div[" \o ToString(((i - 1) % 4) + 1) \o "]/div[1]"

physical_xpath == "//div[contains(translate(normalize-space(.),'ABCDEFGHIJKLMNOPQRSTUVWXYZ','abcdefghijklmnopqrstuvwxyz'),'physical damage')]/following-sibling::div[1]"

magic_xpath == "//div[contains(translate(normalize-space(.),'ABCDEFGHIJKLMNOPQRSTUVWXYZ','abcdefghijklmnopqrstuvwxyz'),'magic damage')]/following-sibling::div[1]"

true_xpath == "//div[contains(translate(normalize-space(.),'ABCDEFGHIJKLMNOPQRSTUVWXYZ','abcdefghijklmnopqrstuvwxyz'),'true damage')]/following-sibling::div[1]"

total_xpath == "//div[contains(translate(normalize-space(.),'ABCDEFGHIJKLMNOPQRSTUVWXYZ','abcdefghijklmnopqrstuvwxyz'),'total damage')]/following-sibling::div[1]"

Digits == "0123456789"

\* the leading run of digits and "." of text
RECURSIVE LeadingNumeric(_)
LeadingNumeric(text) ==
    IF text # "" /\ (Contains(Digits, Char(text, 1)) \/ Char(text, 1) = ".")
    THEN Char(text, 1) \o LeadingNumeric(SubSeq(text, 2, Len(text)))
    ELSE ""

\* str.replace(c, "")
RECURSIVE Remove(_, _)
Remove(s, c) ==
    IF s = "" THEN ""
    ELSE (IF Char(s, 1) = c THEN "" ELSE Char(s, 1)) \o Remove(SubSeq(s, 2, Len(s)), c)

\* int() of a string of digits; 0 for the empty string
RECURSIVE DigitsToInt(_, _)
DigitsToInt(s, acc) ==
    IF s = "" THEN acc
    ELSE DigitsToInt(SubSeq(s, 2, Len(s)), acc * 10 + (Find(Digits, Char(s, 1)) - 1))

\* int(float(num_str)), 0 when float() raises ValueError
IntOfFloat(num_str) ==
    LET parts == Split(num_str, ".")
    IN  IF Len(parts) > 2 \/ Remove(num_str, ".") = "" THEN 0
        ELSE DigitsToInt(parts[1], 0)

_int_from_xpath(tree, xpath_expr) ==
    IF ~Present(tree, xpath_expr) THEN 0
    ELSE LET text == Remove(Strip(Split(Strip(tree[xpath_expr]), "\n")[1]), ",")
             num_str == LeadingNumeric(text)
         IN  IF num_str = "" THEN 0 ELSE IntOfFloat(num_str)

(***************************************************************************)
(* Binary floating point of _pct.  A positive double is [m, f]: m its 53    *)
(* significand bits, most significant first, f the number of them after    *)
(* the binary point, so its value is IntOf(m) / 2^f.  Every operation       *)
(* rounds to nearest, ties to even, as IEEE 754 and CPython do.            *)
(***************************************************************************)
Precision == 53

LimbBits == 20          \* a bit string is multiplied 20 bits at a time

ChunkBits == 8          \* a quotient is developed 8 bits at a time

RECURSIVE BitsOf(_)
BitsOf(n) == IF n = 0 THEN <<>> ELSE Append(BitsOf(n \div 2), n % 2)

RECURSIVE IntOf(_, _)
IntOf(bits, acc) ==
    IF bits = <<>> THEN acc ELSE IntOf(Tail(bits), 2 * acc + Head(bits))

\* n < 2^width as exactly width bits
FixedBits(n, width) == SubSeq([i \in 1..width |-> (n \div 2^(width - i)) % 2], 1, width)

Zeros(k) == SubSeq([i \in 1..k |-> 0], 1, k)

PadTo(bits, n) == Zeros(n - Len(bits)) \o bits

Max2(a, b) == IF a >= b THEN a ELSE b

RECURSIVE StripZeros(_)
StripZeros(bits) ==
    IF bits # <<>> /\ Head(bits) = 0 THEN StripZeros(Tail(bits)) ELSE bits

\* bits * k + c for small k and c, limb by limb from the low end
RECURSIVE MulAdd(_, _, _)
MulAddLimb(high, v, k) ==
    MulAdd(high, k, v \div 2^LimbBits) \o FixedBits(v % 2^LimbBits, LimbBits)

MulAdd(bits, k, c) ==
    IF Len(bits) <= LimbBits THEN BitsOf(IntOf(bits, 0) * k + c)
    ELSE MulAddLimb(SubSeq(bits, 1, Len(bits) - LimbBits),
                    IntOf(SubSeq(bits, Len(bits) - LimbBits + 1, Len(bits)), 0) * k + c, k)

Sticky(bits) == \E i \in 1..Len(bits) : bits[i] = 1

\* the significand after rounding up: a carry out of the top bit leaves
\* 1 followed by zeros, one binary place higher
Carried(sum, f) ==
    IF Len(sum) > Precision THEN [m |-> SubSeq(sum, 1, Precision), f |-> f - 1]
    ELSE [m |-> sum, f |-> f]

\* bits (more than Precision of them, leading 1) with f places after the
\* point and a possibly non-zero remainder below, rounded to a double
RoundToDouble(bits, f, below) ==
    IF /\ bits[Precision + 1] = 1
       /\ \/ below
          \/ Sticky(SubSeq(bits, Precision + 2, Len(bits)))
          \/ bits[Precision] = 1
    THEN Carried(MulAdd(SubSeq(bits, 1, Precision), 1, 1), f - (Len(bits) - Precision))
    ELSE [m |-> SubSeq(bits, 1, Precision), f |-> f - (Len(bits) - Precision)]

\* long division: bits of part / whole so far, f of them after the point,
\* r the remainder, until more bits than a significand are known
RECURSIVE DivBits(_, _, _, _)
DivBits(bits, f, r, whole) ==
    IF Len(bits) > Precision THEN RoundToDouble(bits, f, r # 0)
    ELSE DivBits(StripZeros(bits \o FixedBits((r * 2^ChunkBits) \div whole, ChunkBits)),
                 f + ChunkBits, (r * 2^ChunkBits) % whole, whole)

\* part / whole: true division of two positive ints, correctly rounded
TrueDiv(part, whole) == DivBits(BitsOf(part \div whole), 0, part % whole, whole)

\* x * 100
Times100(x) == RoundToDouble(MulAdd(x.m, 100, 0), x.f, FALSE)

\* the integer nearest to a value given as bits with f >= 1 places after the
\* point, ties to even
NearestInt(bits, f) ==
    IF /\ bits[Len(bits) - f + 1] = 1
       /\ \/ Sticky(SubSeq(bits, Len(bits) - f + 2, Len(bits)))
          \/ bits[Len(bits) - f] = 1
    THEN IntOf(SubSeq(bits, 1, Len(bits) - f), 0) + 1
    ELSE IntOf(SubSeq(bits, 1, Len(bits) - f), 0)

PadInt(bits, f) == PadTo(bits, Max2(Len(bits), f + 1))

\* round(x, 1) in tenths: x * 10 exactly, rounded to an integer
RoundTenths(x) == NearestInt(PadInt(MulAdd(x.m, 10, 0), x.f), x.f)

\* round(part / whole * 100, 1) in tenths of a percent
PctTenths(part, whole) ==
    IF part = 0 THEN 0 ELSE RoundTenths(Times100(TrueDiv(part, whole)))

\* repr of a float with one decimal, below 1e16
FloatRepr(tenths) == ToString(tenths \div 10) \o "." \o ToString(tenths % 10)

\* variant: truncates to one decimal instead of rounding
_pct_Truncates(part, whole) ==
    IF whole <= 0 THEN "0%"
    ELSE FloatRepr((part * 1000) \div whole) \o "%"

_pct(part, whole) ==
    IF whole <= 0 THEN "0%"
    ELSE FloatRepr(PctTenths(part, whole)) \o "%"

damage_info(tree) ==
    LET phys == _int_from_xpath(tree, physical_xpath)
        mag == _int_from_xpath(tree, magic_xpath)
        tru == _int_from_xpath(tree, true_xpath)
        direct == _int_from_xpath(tree, total_xpath)
        tot == IF direct # 0 THEN direct ELSE phys + mag + tru
    IN  [physical |-> ToString(phys), magic |-> ToString(mag), true |-> ToString(tru),
         total |-> ToString(tot),
         physical_pct |-> _pct(phys, tot), magic_pct |-> _pct(mag, tot),
         true_pct |-> _pct(tru, tot)]

get_champion_data_extract(tree) ==
    IF \E i \in 1..8 : ~Present(tree, current_xpath(i)) THEN IndexError
    ELSE Ok([l \in {labels[i] : i \in 1..8} |->
                LET i == CHOOSE j \in 1..8 : labels[j] = l
                IN  Split(Text(tree, current_xpath(i)), "\n")[1]]
            @@ ("damage" :> damage_info(tree)))

(***************************************************************************)
(* matchup                                                                 *)
(***************************************************************************)
mu_winrate_xpath == "/html/body/main/div[5]/div[1]/div[2]/div[3]/div/div/div[1]/div[1]"

nof_games_xpath == "/html/body/main/div[5]/div[1]/div[2]/div[3]/div/div/div[2]/div[1]"

matchup_extract(tree) ==
    IF ~Present(tree, mu_winrate_xpath) THEN IndexError
    ELSE IF ~Present(tree, nof_games_xpath) THEN IndexError
    ELSE Ok([winrate |-> Split(Text(tree, mu_winrate_xpath), "%")[1],
             number_of_games |-> Text(tree, nof_games_xpath)])

(***************************************************************************)
(* patch_notes                                                             *)
(***************************************************************************)
Categories == {"all", "buffed", "nerfed", "adjusted"}

mapping == [buffed |-> 1, nerfed |-> 2, adjusted |-> 3]

pn_base(idx, i) ==
    "/html/body/main/div[5]/div[4]/div[" \o ToString(idx) \o "]/div/div[" \o ToString(i) \o "]"

champion_name_xpath(idx, i) == pn_base(idx, i) \o "/div/div[1]/span[1]/a"

pn_winrate_xpath(idx, i) == pn_base(idx, i) \o "/div/div[2]/span"

pickrate_xpath(idx, i) == pn_base(idx, i) \o "/div/div[3]/span[1]"

banrate_xpath(idx, i) == pn_base(idx, i) \o "/div/div[3]/span[2]"

\* variant: a row whose champion is found is kept, its missing fields empty
pn_row_Partial(tree, idx, i) ==
    IF ~Present(tree, champion_name_xpath(idx, i)) THEN IndexError
    ELSE Ok([champion |-> Text(tree, champion_name_xpath(idx, i)),
             winrate |-> IF Present(tree, pn_winrate_xpath(idx, i))
                         THEN Text(tree, pn_winrate_xpath(idx, i)) ELSE "",
             pickrate |-> IF Present(tree, pickrate_xpath(idx, i))
                          THEN Text(tree, pickrate_xpath(idx, i)) ELSE "",
             banrate |-> IF Present(tree, banrate_xpath(idx, i))
                         THEN Text(tree, banrate_xpath(idx, i)) ELSE ""])

\* the dict display inside the try of _parse: the entry of row i, or the
\* IndexError of the first lookup that finds nothing
pn_row(tree, idx, i) ==
    IF ~Present(tree, champion_name_xpath(idx, i)) THEN IndexError
    ELSE IF ~Present(tree, pn_winrate_xpath(idx, i)) THEN IndexError
    ELSE IF ~Present(tree, pickrate_xpath(idx, i)) THEN IndexError
    ELSE IF ~Present(tree, banrate_xpath(idx, i)) THEN IndexError
    ELSE Ok([champion |-> Text(tree, champion_name_xpath(idx, i)),
             winrate |-> Text(tree, pn_winrate_xpath(idx, i)),
             pickrate |-> Text(tree, pickrate_xpath(idx, i)),
             banrate |-> Text(tree, banrate_xpath(idx, i))])

\* the while loop of _parse: entries is result[cat], keyed 0, 1, ...
RECURSIVE _parse_loop(_, _, _, _)
_parse_row(tree, idx, i, entries, row) ==
    IF row.ok THEN _parse_loop(tree, idx, i + 1, entries @@ ((i - 1) :> row.val))
    ELSE entries

_parse_loop(tree, idx, i, entries) ==
    _parse_row(tree, idx, i, entries, pn_row(tree, idx, i))

_parse(tree, cat) == _parse_loop(tree, mapping[cat], 1, <<>>)

patch_notes_extract(tree, category) ==
    LET cats == IF category = "all" THEN {"buffed", "nerfed", "adjusted"} ELSE {category}
    IN  Ok([c \in cats |-> _parse(tree, c)])

(***************************************************************************)
(* SpecExt: the extractors applied to documents drawn from bounded sets.   *)
(* A document of a page is any part of a complete page of that kind: every *)
(* subset of its nodes may be missing.                                     *)
(***************************************************************************)
MaxN == 2       \* largest row count n a caller asks for

MaxRows == 2    \* rows per category on a patch-notes page

\* the union of functions with pairwise disjoint domains
MergeAll(F) ==
    [x \in UNION {DOMAIN f : f \in F} |-> (CHOOSE f \in F : x \in DOMAIN f)[x]]

Restrict(f, S) == [x \in S |-> f[x]]

SubTrees(full) == {Restrict(full, S) : S \in SUBSET (DOMAIN full)}

TierlistRow(i) ==
    (tl_rank_xpath(i) :> (" " \o ToString(i - 2) \o " ")) @@
    (tl_champion_xpath(i) :> "\n Jax \n") @@
    (tl_tier_xpath(i) :> "S+") @@
    (tl_winrate_xpath(i) :> " 52.31 ") @@
    (tl_pbi_xpath(i) :> "12 ")

TierlistPage == MergeAll({TierlistRow(i) : i \in 3..(MaxN + 2)})

CountersRow(i) ==
    (ct_champion_xpath(i) :> " Vayne ") @@
    (ct_winrate_xpath(i) :> "48.7%\nWR")

CountersPage == MergeAll({CountersRow(i) : i \in 1..MaxN})

ChampionPage ==
    [x \in {current_xpath(i) : i \in 1..8} |-> " 51.2%\n+0.4 "] @@
    (physical_xpath :> " 15,708\n18 / 63 ") @@
    (magic_xpath :> "1,862") @@
    (true_xpath :> "1,073") @@
    (total_xpath :> "18,646")

MatchupPage ==
    (mu_winrate_xpath :> " 49.5% ") @@
    (nof_games_xpath :> " 1,234 ")

PatchRow(idx, i) ==
    (champion_name_xpath(idx, i) :> " Ahri ") @@
    (pn_winrate_xpath(idx, i) :> "50.1") @@
    (pickrate_xpath(idx, i) :> "7.2") @@
    (banrate_xpath(idx, i) :> "3.3 ")

PatchCategory(idx) == MergeAll({PatchRow(idx, i) : i \in 1..MaxRows})

PatchPage == MergeAll({PatchCategory(idx) : idx \in 1..3})

\* patch-notes documents: one category with any of its nodes missing, the
\* other two complete
PatchTrees ==
    UNION {{Restrict(PatchPage, S \cup (DOMAIN PatchPage \ DOMAIN PatchCategory(idx))) :
                S \in SUBSET (DOMAIN PatchCategory(idx))} : idx \in 1..3}

ExtInputs ==
    [op : {"get_tierlist"}, n : 1..MaxN, category : {""}, tree : SubTrees(TierlistPage)]
    \cup [op : {"get_counters"}, n : 1..MaxN, category : {""}, tree : SubTrees(CountersPage)]
    \cup [op : {"get_champion_data"}, n : {0}, category : {""}, tree : SubTrees(ChampionPage)]
    \cup [op : {"matchup"}, n : {0}, category : {""}, tree : SubTrees(MatchupPage)]
    \cup [op : {"patch_notes"}, n : {0}, category : Categories, tree : PatchTrees]

ExtInit ==
    /\ ClientOff
    /\ lx_op = "off" /\ lx_in = <<>> /\ lx_out = <<>>
    /\ ex_op = "none"
    /\ ex_in \in ExtInputs
    /\ ex_out = NoResult

ExtTierlist ==
    /\ ex_op = "none" /\ ex_in.op = "get_tierlist"
    /\ ex_op' = "get_tierlist"
    /\ ex_out' = get_tierlist_extract(ex_in.tree, ex_in.n)
    /\ UNCHANGED <<ex_in, lexvars, clientvars>>

ExtCounters ==
    /\ ex_op = "none" /\ ex_in.op = "get_counters"
    /\ ex_op' = "get_counters"
    /\ ex_out' = get_counters_extract(ex_in.tree, ex_in.n)
    /\ UNCHANGED <<ex_in, lexvars, clientvars>>

ExtChampionData ==
    /\ ex_op = "none" /\ ex_in.op = "get_champion_data"
    /\ ex_op' = "get_champion_data"
    /\ ex_out' = get_champion_data_extract(ex_in.tree)
    /\ UNCHANGED <<ex_in, lexvars, clientvars>>

ExtMatchup ==
    /\ ex_op = "none" /\ ex_in.op = "matchup"
    /\ ex_op' = "matchup"
    /\ ex_out' = matchup_extract(ex_in.tree)
    /\ UNCHANGED <<ex_in, lexvars, clientvars>>

ExtPatchNotes ==
    /\ ex_op = "none" /\ ex_in.op = "patch_notes"
    /\ ex_op' = "patch_notes"
    /\ ex_out' = patch_notes_extract(ex_in.tree, ex_in.category)
    /\ UNCHANGED <<ex_in, lexvars, clientvars>>

ExtNext == ExtTierlist \/ ExtCounters \/ ExtChampionData \/ ExtMatchup \/ ExtPatchNotes

SpecExt == ExtInit /\ [][ExtNext]_vars

(***************************************************************************)
(* SpecPct: the percentage helper applied to parts and wholes drawn from   *)
(* bounded sets, the damage numbers of the test page among them.           *)
(***************************************************************************)
MaxPart == 24     \* largest small part

MaxWhole == 80    \* largest small whole

PctParts == 0..MaxPart \cup {1073, 1862, 15708}

PctWholes == (-1)..MaxWhole \cup {18646}

PctInit ==
    /\ ClientOff
    /\ lx_op = "off" /\ lx_in = <<>> /\ lx_out = <<>>
    /\ ex_op = "none"
    /\ ex_in \in [op : {"_pct"}, part : PctParts, whole : PctWholes]
    /\ ex_out = NoResult

ApplyPct ==
    /\ ex_op = "none" /\ ex_in.op = "_pct"
    /\ ex_op' = "_pct"
    /\ ex_out' = Ok(_pct(ex_in.part, ex_in.whole))
    /\ UNCHANGED <<ex_in, lexvars, clientvars>>

PctNext == ApplyPct

SpecPct == PctInit /\ [][PctNext]_vars

(***************************************************************************)
(* SpecParse: patch_notes after its page is fetched, one iteration of the  *)
(* while loop of _parse per step.  ex_out.val holds the locals while the   *)
(* loop runs: result, the categories still to parse (cats) and the row     *)
(* counter i of the running _parse.  The body has no await, so a started   *)
(* call always goes on: weak fairness of the next step.                    *)
(***************************************************************************)
MaxProbe == 3     \* rows per category on the documents of SpecParse

\* what is left of a row: all of it, nothing, or all but the named field
RowShapes == {"complete", "absent", "champion", "winrate", "pickrate", "banrate"}

ProbeRowFull(idx, i) ==
    (champion_name_xpath(idx, i) :> (" Ahri" \o ToString(idx) \o ToString(i) \o "\n")) @@
    (pn_winrate_xpath(idx, i) :> ("50." \o ToString(i))) @@
    (pickrate_xpath(idx, i) :> ("7." \o ToString(i))) @@
    (banrate_xpath(idx, i) :> ("3." \o ToString(i) \o " "))

ProbeRow(idx, i, shape) ==
    Restrict(ProbeRowFull(idx, i),
        CASE shape = "complete" -> DOMAIN ProbeRowFull(idx, i)
          [] shape = "absent" -> {}
          [] shape = "champion" -> DOMAIN ProbeRowFull(idx, i) \ {champion_name_xpath(idx, i)}
          [] shape = "winrate" -> DOMAIN ProbeRowFull(idx, i) \ {pn_winrate_xpath(idx, i)}
          [] shape = "pickrate" -> DOMAIN ProbeRowFull(idx, i) \ {pickrate_xpath(idx, i)}
          [] shape = "banrate" -> DOMAIN ProbeRowFull(idx, i) \ {banrate_xpath(idx, i)})

ProbeCategory(idx, shapes) == MergeAll({ProbeRow(idx, i, shapes[i]) : i \in 1..MaxProbe})

FullCategory(idx) == ProbeCategory(idx, [i \in 1..MaxProbe |-> "complete"])

\* documents whose category idx has rows of any shape, the others complete
ProbeTrees(idx) ==
    {MergeAll({ProbeCategory(idx, shapes)} \cup {FullCategory(j) : j \in (1..3) \ {idx}}) :
        shapes \in [1..MaxProbe -> RowShapes]}

\* every category requested from documents damaged in the middle one, and
\* the last one requested alone from documents damaged in it
ParseInputs ==
    {[op |-> "patch_notes", category |-> "all", tree |-> t] : t \in ProbeTrees(2)}
    \cup {[op |-> "patch_notes", category |-> "adjusted", tree |-> t] : t \in ProbeTrees(3)}

\* nothing returned or raised yet, and the locals of the call
Locals(result, cats, i) == [NoResult EXCEPT !.val = [result |-> result, cats |-> cats, i |-> i]]

ParseInit ==
    /\ ClientOff
    /\ lx_op = "off" /\ lx_in = <<>> /\ lx_out = <<>>
    /\ ex_op = "none"
    /\ ex_in \in ParseInputs
    /\ ex_out = Locals(<<>>, <<>>, 0)

\* result and cats are set up and the for loop reaches its first _parse
ParseStart ==
    /\ ex_op = "none" /\ ex_in.op = "patch_notes"
    /\ ex_op' = "_parse"
    /\ ex_out' = IF ex_in.category = "all"
                 THEN Locals([c \in {"buffed", "nerfed", "adjusted"} |-> <<>>],
                             <<"buffed", "nerfed", "adjusted">>, 0)
                 ELSE Locals([c \in {ex_in.category} |-> <<>>], <<ex_in.category>>, 0)
    /\ UNCHANGED <<ex_in, lexvars, clientvars>>

\* the row the running _parse probes next: i += 1, then the four lookups
Probe == pn_row(ex_in.tree, mapping[Head(ex_out.val.cats)], ex_out.val.i + 1)

\* an iteration in which every lookup finds its node: result[cat][i - 1] is set
ParseHit ==
    /\ ex_op = "_parse" /\ ex_out.val.cats # <<>>
    /\ Probe.ok
    /\ ex_out' = Locals([ex_out.val.result EXCEPT ![Head(ex_out.val.cats)] =
                            @ @@ (ex_out.val.i :> Probe.val)],
                        ex_out.val.cats, ex_out.val.i + 1)
    /\ UNCHANGED <<ex_op, ex_in, lexvars, clientvars>>

\* an iteration in which a lookup raises IndexError: break, _parse returns
\* and the for loop goes to the next category
ParseMiss ==
    /\ ex_op = "_parse" /\ ex_out.val.cats # <<>>
    /\ ~Probe.ok
    /\ ex_out' = Locals(ex_out.val.result, Tail(ex_out.val.cats), 0)
    /\ UNCHANGED <<ex_op, ex_in, lexvars, clientvars>>

\* return result
ParseReturn ==
    /\ ex_op = "_parse" /\ ex_out.val.cats = <<>>
    /\ ex_op' = "patch_notes"
    /\ ex_out' = Ok(ex_out.val.result)
    /\ UNCHANGED <<ex_in, lexvars, clientvars>>

ParseNext == ParseStart \/ ParseHit \/ ParseMiss \/ ParseReturn

SpecParse == ParseInit /\ [][ParseNext]_vars /\ WF_vars(ParseNext)

(***************************************************************************)
(* The client: session scope, public operations and page fetcher.          *)
(*                                                                         *)
(* Tasks run on one event loop, so a task's steps are atomic between its   *)
(* await points.  __aenter__ has none; in __aexit__ the session is marked  *)
(* closed before close() first suspends; a public operation runs from its  *)
(* entry to the request issued by _fetch_tree (validation, URL building    *)
(* and the closed-session test of the session are synchronous), suspends   *)
(* until the response is there, and then extracts without suspending.      *)
(* Each task calls one operation with one choice of arguments (its plan),  *)
(* any number of times, on the clients whose scope it is inside.           *)
(***************************************************************************)
MaxDepth == 2    \* deepest nesting of `async with` in one task

Clients == {"c1", "c2"}

ExtSession == "ext"    \* the session a caller passes to __init__

NoSession == "none"

Sessions == Clients \cup {ExtSession}    \* a client's own session bears its name

\* __init__: self.base_url for the default base_url
base_url == ClientBaseUrl("https://lolalytics.com/")

IdleCall ==
    [client |-> "", status |-> "none", err |-> "", msg |-> "", fetched |-> FALSE,
     session |-> NoSession, url |-> "", result |-> <<>>]

\* __init__ for every client, with or without a caller-supplied session
ClientInit(plans) ==
    /\ plan \in plans
    /\ owns \in [Clients -> BOOLEAN]
    /\ client_session = [c \in Clients |-> IF owns[c] THEN NoSession ELSE ExtSession]
    /\ session_state = [s \in Sessions |-> IF s = ExtSession THEN "open" ELSE "absent"]
    /\ scopes = [t \in DOMAIN plan |-> <<>>]
    /\ call = [t \in DOMAIN plan |-> IdleCall]
    /\ lx_op = "off" /\ lx_in = <<>> /\ lx_out = <<>>
    /\ ex_op = "off" /\ ex_in = <<>> /\ ex_out = <<>>

Tasks == DOMAIN scopes

InScope(t) == {scopes[t][k] : k \in 1..Len(scopes[t])}

\* async with client: __aenter__
Enter(t, c) ==
    /\ call[t].status # "fetching"
    /\ Len(scopes[t]) < MaxDepth
    /\ IF client_session[c] = NoSession
       THEN /\ client_session' = [client_session EXCEPT ![c] = c]
            /\ session_state' = [session_state EXCEPT ![c] = "open"]
       ELSE UNCHANGED <<client_session, session_state>>
    /\ scopes' = [scopes EXCEPT ![t] = Append(@, c)]
    /\ UNCHANGED <<owns, plan, call, lexvars, extvars>>

\* variant: __aexit__ closes the session only when the body did not raise
Exit_SkipsCloseOnError(t) ==
    /\ call[t].status # "fetching"
    /\ scopes[t] # <<>>
    /\ LET c == scopes[t][Len(scopes[t])]
           s == client_session[c]
       IN  IF owns[c] /\ s # NoSession /\ call[t].status # "raised"
           THEN session_state' = [session_state EXCEPT ![s] = "closed"]
           ELSE UNCHANGED session_state
    /\ scopes' = [scopes EXCEPT ![t] = SubSeq(@, 1, Len(@) - 1)]
    /\ UNCHANGED <<owns, client_session, plan, call, lexvars, extvars>>

\* end of the async with block: __aexit__(exc_type, exc, tb), reached when the
\* body returns and when the exception of its last call propagates
Exit(t) ==
    /\ call[t].status # "fetching"
    /\ scopes[t] # <<>>
    /\ LET c == scopes[t][Len(scopes[t])]
           s == client_session[c]
       IN  IF owns[c] /\ s # NoSession
           THEN session_state' = [session_state EXCEPT ![s] = "closed"]
           ELSE UNCHANGED session_state
    /\ scopes' = [scopes EXCEPT ![t] = SubSeq(@, 1, Len(@) - 1)]
    /\ UNCHANGED <<owns, client_session, plan, call, lexvars, extvars>>

\* the part of _fetch_tree up to the request: the assertion and
\* session.get(url), which raises RuntimeError on a closed session.  With
\* assertions compiled out (python -O) a missing session is an AttributeError.
FetchStart(c, cl) ==
    LET s == client_session[c]
    IN  IF s = NoSession
        THEN {[cl EXCEPT !.status = "raised", !.err = e, !.fetched = TRUE,
                         !.msg = "ClientSession not initialized"] :
                 e \in {"AssertionError", "AttributeError"}}
        ELSE IF session_state[s] = "closed"
        THEN {[cl EXCEPT !.status = "raised", !.err = "RuntimeError", !.fetched = TRUE,
                         !.session = s, !.msg = "Session is closed"]}
        ELSE {[cl EXCEPT !.status = "fetching", !.fetched = TRUE, !.session = s]}

\* variant: the page is requested before the arguments are checked
BeginWith_FetchesFirst(t, c, pre, url) ==
    /\ call[t].status # "fetching"
    /\ c \in InScope(t)
    /\ \E next \in FetchStart(c, [IdleCall EXCEPT !.client = c,
                                                  !.url = IF url.ok THEN url.val ELSE ""]) :
          call' = [call EXCEPT ![t] =
              IF ~pre.ok
              THEN [next EXCEPT !.status = "raised", !.err = pre.err, !.msg = pre.val]
              ELSE IF ~url.ok
              THEN [next EXCEPT !.status = "raised", !.err = url.err, !.msg = url.val]
              ELSE next]
    /\ UNCHANGED <<owns, client_session, session_state, scopes, plan, lexvars, extvars>>

\* a public operation from its entry to its first await, given the outcome
\* pre of its precondition and the outcome url of _build_url: the first
\* failure is raised, else _fetch_tree(url) is awaited
BeginWith(t, c, pre, url) ==
    /\ call[t].status # "fetching"
    /\ c \in InScope(t)
    /\ IF ~pre.ok
       THEN call' = [call EXCEPT ![t] =
                [IdleCall EXCEPT !.client = c, !.status = "raised",
                                 !.err = pre.err, !.msg = pre.val]]
       ELSE IF ~url.ok
       THEN call' = [call EXCEPT ![t] =
                [IdleCall EXCEPT !.client = c, !.status = "raised",
                                 !.err = url.err, !.msg = url.val]]
       ELSE \E next \in FetchStart(c, [IdleCall EXCEPT !.client = c, !.url = url.val]) :
                call' = [call EXCEPT ![t] = next]
    /\ UNCHANGED <<owns, client_session, session_state, scopes, plan, lexvars, extvars>>

Begin(t, c, pre, path, lane, rank) ==
    BeginWith(t, c, pre, _build_url(base_url, path, lane, rank))

ChampionCheck(champion) ==
    IF champion = "" THEN Raise("ValueError", "Champion name cannot be empty") ELSE Ok("")

get_tierlist(t, c) ==
    /\ plan[t].op = "get_tierlist"
    /\ Begin(t, c, Ok(""), "lol/tierlist/", plan[t].lane, plan[t].rank)

get_counters(t, c) ==
    /\ plan[t].op = "get_counters"
    /\ Begin(t, c, ChampionCheck(plan[t].champion),
             "lol/" \o Lower(plan[t].champion) \o "/counters/", "", plan[t].rank)

get_champion_data(t, c) ==
    /\ plan[t].op = "get_champion_data"
    /\ Begin(t, c, ChampionCheck(plan[t].champion),
             "lol/" \o Lower(plan[t].champion) \o "/build/", plan[t].lane, plan[t].rank)

matchup(t, c) ==
    /\ plan[t].op = "matchup"
    /\ Begin(t, c,
             IF plan[t].champion = "" \/ plan[t].champion2 = ""
             THEN Raise("ValueError", "Champion names cannot be empty") ELSE Ok(""),
             "lol/" \o Lower(plan[t].champion) \o "/vs/" \o Lower(plan[t].champion2)
                 \o "/build/",
             plan[t].lane, plan[t].rank)

patch_notes(t, c) ==
    /\ plan[t].op = "patch_notes"
    /\ Begin(t, c,
             IF plan[t].category \notin Categories
             THEN Raise("ValueError",
                        "category must be one of 'all', 'buffed', 'nerfed', 'adjusted'")
             ELSE Ok(""),
             "", "", plan[t].rank)

\* the extraction a public operation runs on the fetched tree
Extract(args, tree) ==
    CASE args.op = "get_tierlist" -> get_tierlist_extract(tree, args.n)
      [] args.op = "get_counters" -> get_counters_extract(tree, args.n)
      [] args.op = "get_champion_data" -> get_champion_data_extract(tree)
      [] args.op = "matchup" -> matchup_extract(tree)
      [] args.op = "patch_notes" -> patch_notes_extract(tree, args.category)

\* the response arrives: _fetch_tree raises (HTTP status, transport, timeout)
FetchFails(t) ==
    /\ call[t].status = "fetching"
    /\ call' = [call EXCEPT ![t] = [@ EXCEPT !.status = "raised", !.err = "FetchError"]]
    /\ UNCHANGED <<owns, client_session, session_state, scopes, plan, lexvars, extvars>>

\* the response arrives: _fetch_tree returns tree and the operation extracts
FetchReturns(t, tree) ==
    /\ call[t].status = "fetching"
    /\ LET out == Extract(plan[t], tree)
       IN  call' = [call EXCEPT ![t] =
               IF out.ok
               THEN [@ EXCEPT !.status = "returned", !.result = out.val]
               ELSE [@ EXCEPT !.status = "raised", !.err = out.err, !.msg = out.val]]
    /\ UNCHANGED <<owns, client_session, session_state, scopes, plan, lexvars, extvars>>

\* documents a fetch may return
Without(f, xp) == Restrict(f, DOMAIN f \ {xp})

PagesOf(op) ==
    CASE op = "get_tierlist" ->
            {TierlistPage, Without(TierlistPage, tl_pbi_xpath(3)),
             Without(TierlistPage, tl_champion_xpath(3))}
      [] op = "get_counters" -> {CountersPage, Without(CountersPage, ct_winrate_xpath(1))}
      [] op = "get_champion_data" -> {ChampionPage, Without(ChampionPage, current_xpath(8))}
      [] op = "matchup" -> {MatchupPage, Without(MatchupPage, nof_games_xpath)}
      [] op = "patch_notes" -> {PatchPage, Without(PatchPage, banrate_xpath(1, MaxRows))}
      [] OTHER -> {}

\* arguments of the calls
NoArgs == [op |-> "none", n |-> 0, champion |-> "", champion2 |-> "",
           lane |-> "", rank |-> "", category |-> ""]

ArgLanes == {"", "Top", "test"}

ArgRanks == {"", "gm+", "test"}

ArgChampions == {"", "Jax"}

CallArgs ==
    {[NoArgs EXCEPT !.op = "get_tierlist", !.n = n, !.lane = l, !.rank = r] :
        n \in 1..MaxN, l \in ArgLanes, r \in ArgRanks}
    \cup {[NoArgs EXCEPT !.op = "get_counters", !.n = n, !.champion = ch, !.rank = r] :
        n \in 1..MaxN, ch \in ArgChampions, r \in ArgRanks}
    \cup {[NoArgs EXCEPT !.op = "get_champion_data", !.champion = ch, !.lane = l, !.rank = r] :
        ch \in ArgChampions, l \in ArgLanes, r \in ArgRanks}
    \cup {[NoArgs EXCEPT !.op = "matchup", !.champion = ch, !.champion2 = ch2,
                         !.lane = l, !.rank = r] :
        ch \in ArgChampions, ch2 \in {"", "Vayne"}, l \in ArgLanes, r \in ArgRanks}
    \cup {[NoArgs EXCEPT !.op = "patch_notes", !.category = cat, !.rank = r] :
        cat \in {"all", "nerfed", "bogus", ""}, r \in ArgRanks}

\* one valid call of each operation
SharedArgs ==
    {[NoArgs EXCEPT !.op = "get_tierlist", !.n = 1],
     [NoArgs EXCEPT !.op = "get_counters", !.n = 1, !.champion = "Jax"],
     [NoArgs EXCEPT !.op = "get_champion_data", !.champion = "Jax"],
     [NoArgs EXCEPT !.op = "matchup", !.champion = "Jax", !.champion2 = "Vayne"],
     [NoArgs EXCEPT !.op = "patch_notes", !.category = "nerfed"]}

Next ==
    \/ \E t \in Tasks, c \in Clients : Enter(t, c)
    \/ \E t \in Tasks : Exit(t)
    \/ \E t \in Tasks, c \in Clients : get_tierlist(t, c)
    \/ \E t \in Tasks, c \in Clients : get_counters(t, c)
    \/ \E t \in Tasks, c \in Clients : get_champion_data(t, c)
    \/ \E t \in Tasks, c \in Clients : matchup(t, c)
    \/ \E t \in Tasks, c \in Clients : patch_notes(t, c)
    \/ \E t \in Tasks : FetchFails(t)
    \/ \E t \in Tasks : \E tree \in PagesOf(plan[t].op) : FetchReturns(t, tree)

\* one task, every kind of argument
Init == ClientInit([{"t1"} -> CallArgs])

Spec == Init /\ [][Next]_vars

\* two tasks on the same clients, both calling the same operation
SharedInit == ClientInit({[t \in {"t1", "t2"} |-> args] : args \in SharedArgs})

SpecShared == SharedInit /\ [][Next]_vars

(***************************************************************************)
(* Properties of the normaliser and the query builder (SpecLex)            *)
(***************************************************************************)
\* s contains sub as a substring
RECURSIVE HasSubFrom(_, _, _)
HasSubFrom(s, sub, i) ==
    IF i + Len(sub) - 1 > Len(s) THEN FALSE
    ELSE IF SubSeq(s, i, i + Len(sub) - 1) = sub THEN TRUE
    ELSE HasSubFrom(s, sub, i + 1)

HasSub(s, sub) == HasSubFrom(s, sub, 1)

\* C1: every canonical token (a value of the rank table, resp. of the lane
\* table) normalises successfully to itself.
C1_LexiconIdempotence ==
    /\ (lx_op = "map_rank" /\ lx_in.rank \in Range(display_ranks))
         => lx_out = Ok(lx_in.rank)
    /\ (lx_op = "map_lane" /\ lx_in.lane \in Range(display_lanes))
         => lx_out = Ok(lx_in.lane)

C3_InvalidInputRejection ==
    /\ lx_op = "map_rank" =>
         IF Lower(lx_in.rank) \in RankKeys
         THEN lx_out.ok /\ lx_out.val = display_ranks[Lower(lx_in.rank)]
         ELSE lx_out = Raise("InvalidRank", lx_in.rank)
    /\ lx_op = "map_lane" =>
         IF Lower(lx_in.lane) \in LaneKeys
         THEN lx_out.ok /\ lx_out.val = display_lanes[Lower(lx_in.lane)]
         ELSE lx_out = Raise("InvalidLane", lx_in.lane)
    /\ (lx_op = "map_rank" /\ lx_in.rank = "nonsense_rank") => lx_out.err = "InvalidRank"
    /\ (lx_op = "map_lane" /\ lx_in.lane = "nonsense_lane") => lx_out.err = "InvalidLane"
    /\ (lx_op = "map_rank" /\ lx_in.rank \in {"GM+", "Gm+"}) => lx_out = Ok("grandmaster_plus")

C3_Witness ==
    /\ lx_op = "map_rank"
    /\ lx_in.rank = "Nonsense_Rank"
    /\ lx_out = Raise("InvalidRank", "Nonsense_Rank")

\* C4: the empty string normalises to the empty string without error, and a
\* URL built with an empty lane (resp. rank) has no lane (resp. tier) parameter.
C4_EmptyIsPassthrough ==
    /\ (lx_op = "map_rank" /\ lx_in.rank = "") => lx_out = Ok("")
    /\ (lx_op = "map_lane" /\ lx_in.lane = "") => lx_out = Ok("")
    /\ (lx_op = "build_url" /\ lx_in.lane = "") => (lx_out.ok => ~HasSub(lx_out.val, "lane="))
    /\ (lx_op = "build_url" /\ lx_in.rank = "") => (lx_out.ok => ~HasSub(lx_out.val, "tier="))
    /\ (lx_op = "build_url" /\ lx_in.lane = "" /\ lx_in.rank = "")
         => lx_out = Ok(urljoin(ClientBaseUrl(lx_in.base), LStrip(lx_in.path, "/")))

C4_Witness ==
    /\ lx_op = "build_url"
    /\ lx_in.lane = "" /\ lx_in.rank = "gm+"
    /\ lx_in.base = "https://x.test/" /\ lx_in.path = "lol/tierlist/"
    /\ lx_out = Ok("https://x.test/lol/tierlist/?tier=grandmaster_plus")

\* C5: when lane and rank normalise, the URL is the joined base + path,
\* followed by "lane=<canonical lane>" iff lane is non-empty and then
\* "tier=<canonical rank>" iff rank is non-empty (lane before tier); the first
\* parameter is introduced by "?" when the joined URL holds no "?" and by "&"
\* otherwise.
C5_Expected(base, path, lane, rank) ==
    LET joined == urljoin(ClientBaseUrl(base), LStrip(path, "/"))
        first == IF Contains(joined, "?") THEN "&" ELSE "?"
        lanePart == "lane=" \o display_lanes[Lower(lane)]
        tierPart == "tier=" \o display_ranks[Lower(rank)]
    IN  IF lane # "" /\ rank # "" THEN joined \o first \o lanePart \o "&" \o tierPart
        ELSE IF lane # "" THEN joined \o first \o lanePart
        ELSE IF rank # "" THEN joined \o first \o tierPart
        ELSE joined

C5_UrlComposition ==
    /\ (lx_op = "build_url" /\ Lower(lx_in.lane) \in LaneKeys /\ Lower(lx_in.rank) \in RankKeys)
         => lx_out = Ok(C5_Expected(lx_in.base, lx_in.path, lx_in.lane, lx_in.rank))
    /\ (lx_op = "build_url" /\ lx_in.base = "https://x.test/" /\ lx_in.path = "lol/tierlist/"
          /\ lx_in.lane = "top" /\ lx_in.rank = "gm+")
         => lx_out = Ok("https://x.test/lol/tierlist/?lane=top&tier=grandmaster_plus")

C5_Witness ==
    /\ lx_op = "build_url"
    /\ lx_in.base = "https://x.test/api?k=v" /\ lx_in.path = ""
    /\ lx_in.lane = "JG" /\ lx_in.rank = "P+"
    /\ lx_out = Ok("https://x.test/api?k=v/&lane=jungle&tier=platinum_plus")

(***************************************************************************)
(* Properties of the positional extractors (SpecExt)                       *)
(***************************************************************************)
TlHardPresent(tree, i) ==
    /\ Present(tree, tl_rank_xpath(i))
    /\ Present(tree, tl_champion_xpath(i))
    /\ Present(tree, tl_tier_xpath(i))
    /\ Present(tree, tl_winrate_xpath(i))

\* some hard field of the call is missing at its structural position
HardFieldMissing(in) ==
    CASE in.op = "get_tierlist" -> \E i \in 3..(in.n + 2) : ~TlHardPresent(in.tree, i)
      [] in.op = "get_counters" ->
            \E i \in 1..in.n : ~Present(in.tree, ct_champion_xpath(i))
                                 \/ ~Present(in.tree, ct_winrate_xpath(i))
      [] in.op = "get_champion_data" -> \E i \in 1..8 : ~Present(in.tree, current_xpath(i))
      [] in.op = "matchup" ->
            ~Present(in.tree, mu_winrate_xpath) \/ ~Present(in.tree, nof_games_xpath)
      [] OTHER -> FALSE

PositionalOps == {"get_tierlist", "get_counters", "get_champion_data", "matchup"}

\* C9: in get_tierlist, when the rank, champion, tier and winrate nodes of
\* every requested row are present, no error is raised whatever pbi nodes are
\* absent, all n rows are emitted, a row without pbi node has pbi = "", and
\* pbi is a string in every returned entry.
C9_SoftFieldDefault ==
    ex_op = "get_tierlist" =>
        /\ (\A i \in 3..(ex_in.n + 2) : TlHardPresent(ex_in.tree, i)) =>
              /\ ex_out.ok
              /\ Len(ex_out.val) = ex_in.n
              /\ \A i \in 3..(ex_in.n + 2) :
                    ~Present(ex_in.tree, tl_pbi_xpath(i)) => ex_out.val[i - 2].pbi = ""
        /\ ex_out.ok => \A k \in 1..Len(ex_out.val) : ex_out.val[k].pbi \in STRING

C9_Witness ==
    /\ ex_op = "get_tierlist" /\ ex_in.n = 2
    /\ TlHardPresent(ex_in.tree, 3) /\ TlHardPresent(ex_in.tree, 4)
    /\ Present(ex_in.tree, tl_pbi_xpath(3)) /\ ~Present(ex_in.tree, tl_pbi_xpath(4))
    /\ ex_out.ok
    /\ ex_out.val[1].pbi = "12" /\ ex_out.val[2].pbi = ""

TakesLane(op) == op \in {"get_tierlist", "get_champion_data", "matchup"}

\* the precondition of the operation fails: empty champion name, or a
\* category outside the closed set
FailsPrecondition(args) ==
    \/ args.op \in {"get_counters", "get_champion_data"} /\ args.champion = ""
    \/ args.op = "matchup" /\ (args.champion = "" \/ args.champion2 = "")
    \/ args.op = "patch_notes" /\ args.category \notin {"all", "buffed", "nerfed", "adjusted"}

BadLane(args) == TakesLane(args.op) /\ Lower(args.lane) \notin LaneKeys

BadRank(args) == Lower(args.rank) \notin RankKeys

\* C6: a call with an empty champion name, a category outside the closed
\* set, or a rank / lane outside the lexicon fails with the validation error
\* (ValueError), InvalidLane or InvalidRank, and _fetch_tree is not invoked
\* during that call.
C6_ValidationBeforeIO ==
    \A t \in Tasks :
        (call[t].status # "none"
           /\ (FailsPrecondition(plan[t]) \/ BadLane(plan[t]) \/ BadRank(plan[t]))) =>
            /\ call[t].status = "raised"
            /\ ~call[t].fetched
            /\ call[t].err =
                  IF FailsPrecondition(plan[t]) THEN "ValueError"
                  ELSE IF BadLane(plan[t]) THEN "InvalidLane"
                  ELSE "InvalidRank"

C6_Witness ==
    /\ plan["t1"].op = "get_counters" /\ plan["t1"].champion = ""
    /\ call["t1"].status = "raised" /\ call["t1"].err = "ValueError"
    /\ call["t1"].msg = "Champion name cannot be empty"
    /\ ~call["t1"].fetched

\* C7: entering the scope of a client constructed without a session leaves
\* the client with a session, an open one when it had none; when the scope
\* exits, on any exit path, that client's session is closed.
C7_ScopedRelease ==
    [][\A t \in Tasks :
          /\ Len(scopes'[t]) > Len(scopes[t]) =>
                LET c == scopes'[t][Len(scopes'[t])]
                IN  owns[c] =>
                      /\ client_session'[c] # NoSession
                      /\ client_session[c] = NoSession =>
                            session_state'[client_session'[c]] = "open"
          /\ Len(scopes'[t]) < Len(scopes[t]) =>
                LET c == scopes[t][Len(scopes[t])]
                IN  owns[c] => session_state'[client_session[c]] = "closed"]_vars

\* the scope of an owning client was left while the extractor's IndexError
\* propagated, and the session is closed
C7_Witness ==
    /\ scopes["t1"] = <<>>
    /\ call["t1"].status = "raised" /\ call["t1"].err = "IndexError"
    /\ owns[call["t1"].client]
    /\ session_state[call["t1"].session] = "closed"

\* C8: a session used by several scopes or calls is closed only when no scope
\* of a client using it remains, never while a call that uses it is in
\* flight, and no fetch is issued on a closed session.
C8_SharedSessionRelease ==
    /\ \A s \in Sessions : session_state[s] = "closed" =>
          \A t \in Tasks : \A c \in InScope(t) : client_session[c] # s
    /\ \A t \in Tasks : call[t].status = "fetching" =>
          session_state[call[t].session] = "open"
    /\ \A t \in Tasks : ~(call[t].status = "raised" /\ call[t].err = "RuntimeError")

(***************************************************************************)
(* C11  Damage percentages: for every non-negative part and every whole,   *)
(* _pct returns "0%" without raising when whole <= 0; otherwise it returns *)
(* a percentage with one decimal and a trailing "%" that is a one-decimal  *)
(* value nearest to part / whole * 100 (no one-decimal value is closer).   *)
(* In particular 15708, 1862 and 1073 of 18646 give "84.2%", "10.0%" and   *)
(* "5.8%".                                                                 *)
(***************************************************************************)
C11_Format(tenths) == ToString(tenths \div 10) \o "." \o ToString(tenths % 10) \o "%"

C11_Distance(tenths, part, whole) ==
    IF tenths * whole >= 1000 * part THEN tenths * whole - 1000 * part
    ELSE 1000 * part - tenths * whole

\* the one-decimal values, in tenths, at most half a tenth from part/whole*100
C11_Nearest(part, whole) ==
    {t \in {(1000 * part) \div whole, (1000 * part) \div whole + 1} :
        2 * C11_Distance(t, part, whole) <= whole}

C11_Example(part, text) ==
    (ex_in.part = part /\ ex_in.whole = 18646) => ex_out.val = text

C11_DamagePercentages ==
    ex_op = "_pct" =>
        /\ ex_out.ok
        /\ ex_in.whole <= 0 => ex_out.val = "0%"
        /\ ex_in.whole > 0 =>
              \E t \in C11_Nearest(ex_in.part, ex_in.whole) : ex_out.val = C11_Format(t)
        /\ C11_Example(15708, "84.2%")
        /\ C11_Example(1862, "10.0%")
        /\ C11_Example(1073, "5.8%")

C11_Witness ==
    /\ ex_op = "_pct"
    /\ ex_in.part = 1073 /\ ex_in.whole = 18646
    /\ ex_out.ok /\ ex_out.val = "5.8%"

(***************************************************************************)
(* C12  Probe until miss: for each requested category patch_notes returns  *)
(* exactly the entries keyed 0..k-1, entry j holding the four texts of row *)
(* j+1, where row k+1 is the first row at which one of the four lookups    *)
(* (champion, winrate, pickrate, banrate) finds nothing.  The miss raises  *)
(* nothing, no partly filled entry and no row after the gap is ever stored,*)
(* and on a document of finitely many rows the call returns.               *)
(***************************************************************************)
C12_Lookups(idx, i) ==
    {champion_name_xpath(idx, i), pn_winrate_xpath(idx, i),
     pickrate_xpath(idx, i), banrate_xpath(idx, i)}

C12_Misses(tree, idx, i) == \E xp \in C12_Lookups(idx, i) : xp \notin DOMAIN tree

\* the first row of category idx at which a lookup misses
C12_FirstGap(tree, idx) ==
    CHOOSE i \in 1..(MaxProbe + 1) :
        C12_Misses(tree, idx, i) /\ \A j \in 1..(i - 1) : ~C12_Misses(tree, idx, j)

C12_Entry(tree, idx, i) ==
    [champion |-> Strip(tree[champion_name_xpath(idx, i)]),
     winrate |-> Strip(tree[pn_winrate_xpath(idx, i)]),
     pickrate |-> Strip(tree[pickrate_xpath(idx, i)]),
     banrate |-> Strip(tree[banrate_xpath(idx, i)])]

C12_Index == [buffed |-> 1, nerfed |-> 2, adjusted |-> 3]

C12_Requested ==
    IF ex_in.category = "all" THEN {"buffed", "nerfed", "adjusted"} ELSE {ex_in.category}

\* entries holds rows 1..n of category cat, keyed 0..n-1, and nothing else
C12_HoldsRows(entries, cat, n) ==
    /\ DOMAIN entries = 0..(n - 1)
    /\ \A j \in 0..(n - 1) : entries[j] = C12_Entry(ex_in.tree, C12_Index[cat], j + 1)

C12_Returned ==
    ex_op = "patch_notes" =>
        /\ ex_out.ok
        /\ DOMAIN ex_out.val = C12_Requested
        /\ \A cat \in C12_Requested :
              C12_HoldsRows(ex_out.val[cat], cat, C12_FirstGap(ex_in.tree, C12_Index[cat]) - 1)

C12_Running ==
    ex_op = "_parse" =>
        /\ ex_out.err # "IndexError"
        /\ DOMAIN ex_out.val.result = C12_Requested
        /\ \A cat \in C12_Requested :
              \E n \in 0..(C12_FirstGap(ex_in.tree, C12_Index[cat]) - 1) :
                  C12_HoldsRows(ex_out.val.result[cat], cat, n)

C12_ProbeUntilMiss ==
    /\ [](C12_Returned /\ C12_Running)
    /\ <>(ex_op = "patch_notes")

\* nerfed: row 1 whole, row 2 without its banrate, row 3 whole; one entry back
C12_Witness ==
    /\ ex_op = "patch_notes" /\ ex_in.category = "all"
    /\ ~C12_Misses(ex_in.tree, 2, 1)
    /\ champion_name_xpath(2, 2) \in DOMAIN ex_in.tree
    /\ banrate_xpath(2, 2) \notin DOMAIN ex_in.tree
    /\ ~C12_Misses(ex_in.tree, 2, 3)
    /\ ex_out.ok
    /\ DOMAIN ex_out.val["nerfed"] = {0}
    /\ ex_out.val["nerfed"][0].champion = "Ahri21"
    /\ DOMAIN ex_out.val["buffed"] = 0..(MaxProbe - 1)

====
